---- MODULE Spec2Model ----
(***************************************************************************)
(* The in-memory cache with write-back persistence of feTrace              *)
(* (src/cache.py, class Cache), its preload, its upsert and its periodic   *)
(* flush thread, together with the two files it works on (people.json and  *)
(* people.json.tmp).                                                       *)
(*                                                                         *)
(* Strings are sequences of one-character strings, so that str.strip() and *)
(* str.lower() are computed, not assumed.  A Python value is a record      *)
(* [t, s]: t is its type ("str", "int", "None", or "missing" for a key the *)
(* dict does not have) and s its characters (for an int, its digits).      *)
(***************************************************************************)
EXTENDS Integers, Sequences, FiniteSets, TLC

\* ------------------------------------------------------------------ bounds

\* upsert_person calls that reach the critical section, per behaviour
MaxUpserts == 2

\* request threads (ThreadingHTTPServer workers) that may call upsert_person
Workers == {"w1", "w2"}

\* ------------------------------------------------------- python values

PyStr(s) == [t |-> "str", s |-> s]
PyInt(s) == [t |-> "int", s |-> s]
PyNone == [t |-> "None", s |-> <<>>]
Missing == [t |-> "missing", s |-> <<>>]

\* str(v)
Str(v) == IF v.t = "None" THEN <<"N", "o", "n", "e">> ELSE v.s

\* bool(v)
Truthy(v) ==
    CASE v.t = "str" -> v.s # <<>>
      [] v.t = "int" -> v.s # <<"0">>
      [] OTHER -> FALSE

\* one character of str.lower(); "m" and "x" stand for caseless glyphs
LowerChar(c) ==
    CASE c = "A" -> "a"
      [] c = "B" -> "b"
      [] c = "N" -> "n"
      [] OTHER -> c

\* str.lower()
Lower(s) == [i \in DOMAIN s |-> LowerChar(s[i])]

IsSpace(c) == c = " "

RECURSIVE LStrip(_)
LStrip(s) == IF s # <<>> /\ IsSpace(Head(s)) THEN LStrip(Tail(s)) ELSE s

RECURSIVE RStrip(_)
RStrip(s) ==
    IF s # <<>> /\ IsSpace(s[Len(s)]) THEN RStrip(SubSeq(s, 1, Len(s) - 1)) ELSE s

\* str.strip()
Strip(s) == RStrip(LStrip(s))

\* p.get('name', default) and p.get('name')
Get(p, default) == IF p.name.t = "missing" THEN default ELSE p.name
GetName(p) == Get(p, PyNone)

\* a person record: its name, the number of its events, and the 'lat' of its
\* events, a number or the empty string
PersonAt(name, n, lat) == [name |-> name, events |-> n, lat |-> lat]

\* a person record whose events have '' for lat and lon
Person(name, n) == PersonAt(name, n, PyStr(<<>>))

\* --------------------------------------------------------------- documents

\* A dict as json.load returns it or as the program builds it: kind "dict"
\* with its 'persons' list (has_persons says the key is there) and extra,
\* whether it has other keys; kind "list" is any other truthy JSON value,
\* kind "None" is None or a falsy JSON value.
Dict(persons) ==
    [kind |-> "dict", extra |-> FALSE, has_persons |-> TRUE, persons |-> persons]
NoneDoc == [kind |-> "None", extra |-> FALSE, has_persons |-> FALSE, persons |-> <<>>]

\* The files: kind "missing" (no such file), "garbage" (not JSON, or cut
\* short), "null", "array", "object" (a JSON document of that shape).
NoFile == [kind |-> "missing", extra |-> FALSE, has_persons |-> FALSE, persons |-> <<>>]
Partial == [kind |-> "garbage", extra |-> FALSE, has_persons |-> FALSE, persons |-> <<>>]

JsonType(t) ==
    CASE t = "str" -> "string"
      [] t = "int" -> "number"
      [] t = "None" -> "null"
      [] OTHER -> "absent"

\* a reader that takes every value for a string
PyTypeText(t) == "str"

PyType(t) ==
    CASE t = "string" -> "str"
      [] t = "number" -> "int"
      [] t = "null" -> "None"
      [] OTHER -> "missing"

\* a value as json.dump writes it, and as json.load gives it back
EncValue(v) == [t |-> JsonType(v.t), s |-> v.s]
DecValue(j) == [t |-> PyType(j.t), s |-> j.s]

EncPerson(p) ==
    [name |-> EncValue(p.name), events |-> p.events, lat |-> EncValue(p.lat)]
DecPerson(j) ==
    [name |-> DecValue(j.name), events |-> j.events, lat |-> DecValue(j.lat)]

\* json.dump(data, f, ensure_ascii=False, indent=2), run to the end
JsonDump(d) ==
    [kind |-> "object", extra |-> d.extra, has_persons |-> d.has_persons,
     persons |-> [i \in DOMAIN d.persons |-> EncPerson(d.persons[i])]]

\* json.load(f) of a file that holds JSON
JsonLoad(f) ==
    [kind |-> CASE f.kind = "object" -> "dict"
                [] f.kind = "array" -> "list"
                [] OTHER -> "None",
     extra |-> f.extra, has_persons |-> f.has_persons,
     persons |-> [i \in DOMAIN f.persons |-> DecPerson(f.persons[i])]]

\* bool(d) of a document
TruthyDoc(d) ==
    CASE d.kind = "dict" -> d.has_persons \/ d.extra
      [] d.kind = "list" -> TRUE
      [] OTHER -> FALSE

\* The built-in example data: two persons, both with events that have
\* numbers for lat and lon.
FALLBACK ==
    Dict(<<PersonAt(PyStr(<<"m">>), 4, PyInt(<<"2", "7">>)),
           PersonAt(PyStr(<<"x">>), 4, PyInt(<<"3", "9">>))>>)

\* ---------------------------------------------------------- configuration

\* os.environ as far as FLUSH_INTERVAL_SEC goes
Unset == [set |-> FALSE, text |-> <<>>]
SetTo(text) == [set |-> TRUE, text |-> text]

\* config/config.json: kind "missing" (no such file), "garbage" (not JSON),
\* "object" (has says it has the key FLUSH_INTERVAL_SEC, val is its value),
\* "other" (JSON that is not an object: an array, a number, a string, null)
NoConfig == [kind |-> "missing", has |-> FALSE, val |-> Missing]
BadConfig == [kind |-> "garbage", has |-> FALSE, val |-> Missing]
OtherConfig == [kind |-> "other", has |-> FALSE, val |-> Missing]
EmptyConfig == [kind |-> "object", has |-> FALSE, val |-> Missing]
ConfigOf(v) == [kind |-> "object", has |-> TRUE, val |-> v]

\* values a JSON object holds besides strings, integers and null
PyFloat(s) == [t |-> "float", s |-> s]
PyBool(b) == [t |-> "bool", s |-> IF b THEN <<"1">> ELSE <<"0">>]

\* what a call gives its caller: a number, or an exception
Returned(n) == [kind |-> "returned", n |-> n]
Raised == [kind |-> "raised", n |-> 0]

\* _load_config(): the parsed file, {} when it cannot be read or parsed
LoadConfig(cfg) == IF cfg.kind \in {"missing", "garbage"} THEN EmptyConfig ELSE cfg

\* get(key, default): the environment first, then cfg.get(key, default); a
\* parsed file that is not a dict has no get, value "raise"
ConfigGet(env, cfg, default) ==
    IF env.set THEN PyStr(env.text)
    ELSE LET c == LoadConfig(cfg)
         IN  IF c.kind # "object" THEN [t |-> "raise", s |-> <<>>]
             ELSE IF c.has THEN c.val ELSE default

Digits == <<"0", "1", "2", "3", "4", "5", "6", "7", "8", "9">>
IsDigit(c) == \E i \in DOMAIN Digits : Digits[i] = c
DigitVal(c) == (CHOOSE i \in DOMAIN Digits : Digits[i] = c) - 1

RECURSIVE Decimal(_)
Decimal(s) ==
    IF s = <<>> THEN 0 ELSE 10 * Decimal(SubSeq(s, 1, Len(s) - 1)) + DigitVal(s[Len(s)])

IsSigned(s) == s # <<>> /\ Head(s) \in {"-", "+"}
Unsigned(s) == IF IsSigned(s) THEN Tail(s) ELSE s
Signed(s, n) == IF IsSigned(s) /\ Head(s) = "-" THEN 0 - n ELSE n

\* the text up to the decimal point
RECURSIVE Whole(_)
Whole(s) == IF s = <<>> \/ Head(s) = "." THEN <<>> ELSE <<Head(s)>> \o Whole(Tail(s))

\* int(text): blanks around it are dropped, then an optional sign and digits
IsIntText(s) ==
    /\ Unsigned(Strip(s)) # <<>>
    /\ \A i \in DOMAIN Unsigned(Strip(s)) : IsDigit(Unsigned(Strip(s))[i])
IntText(s) == Signed(Strip(s), Decimal(Unsigned(Strip(s))))

\* int(val) raises ValueError or TypeError
IntRaises(v) ==
    CASE v.t = "str" -> ~IsIntText(v.s)
      [] v.t \in {"int", "float", "bool"} -> FALSE
      [] OTHER -> TRUE

\* int(val): a float is cut towards zero, True is 1
IntOf(v) ==
    CASE v.t = "str" -> IntText(v.s)
      [] v.t = "float" -> Signed(v.s, Decimal(Unsigned(Whole(v.s))))
      [] OTHER -> Signed(v.s, Decimal(Unsigned(v.s)))

\* get_flush_interval_sec(): the get is outside the try, the int() inside
GetFlushIntervalSec(env, cfg) ==
    LET val == ConfigGet(env, cfg, PyStr(<<"3", "0">>))
    IN  IF val.t = "raise" THEN Raised
        ELSE IF IntRaises(val) THEN Returned(30)
        ELSE Returned(IntOf(val))

\* ------------------------------------------------------------------ state

VARIABLES
    root,        \* Cache._root: "None" before preload, "ROOT" after
    people,      \* Cache.people: "None", or which dict it refers to: "fallback"
                 \* (the FALLBACK object), "loaded" (the dict json.load returned),
                 \* "derived" (the dict {'persons': persons} of upsert_person,
                 \* whose list is the list of the FALLBACK object)
    loaded,      \* the dict json.load returned at preload, changed in place
    fallback,    \* the FALLBACK object, changed in place through its list
    names,       \* Cache.names
    dirty,       \* Cache.dirty
    lock,        \* Cache._lock: "free", or the thread that holds it
    pc,          \* per worker: "idle", or "locked" inside upsert_person
    person,      \* per worker: the argument of its upsert_person call
    fpc,         \* the flush thread: "sleep", "locked", "write", "replace", "cleanup"
    snap,        \* the flush thread's local data: the dict it is to write
    disk,        \* people.json
    tmp,         \* people.json.tmp
    doc_dir,     \* the name column of the spreadsheet in doc_dir
    logged,      \* what the flush thread last passed to its logger
    environ,     \* os.environ: FLUSH_INTERVAL_SEC, set or not, and its text
    config_json, \* config/config.json
    interval_sec, \* what get_flush_interval_sec gave the flush thread
    slept,       \* the argument of the last time.sleep of the flush thread
    excel_names, \* what _load_excel_names returned at preload
    adopted,     \* history: the persons of the dataset preload adopted
    lastUp,      \* history: per trimmed lower-cased name, the last person upserted
    memVer,      \* history: number of upserts applied to the dataset
    snapVer,     \* history: memVer when the flush thread last cleared dirty
    snapDoc,     \* history: the dataset as it was at that moment
    tmpVer,      \* history: memVer when people.json.tmp was last written in full
    diskVer,     \* history: memVer of the content of people.json (0: as preloaded)
    ret,         \* history: how the last upsert_person call ended: "none" yet,
                 \* "ignored" (returned at line 119), "returned", "raised"
    hpc,         \* per worker, handle_person: "idle", "scan" (the for loop),
                 \* "resolve", "cache", "upserting", "respond"
    qname,       \* per worker, handle_person: its local name
    source,      \* per worker, handle_person: the dict its local source refers to
    pos,         \* per worker, handle_person: the index the for loop is at,
                 \* 0 when it ran out or no request is under way
    found,       \* per worker, handle_person: <<>> for None, or <<the record>>
    response     \* the last response a handler wrote

vars == <<root, people, loaded, fallback, names, dirty, lock, pc, person, fpc,
          snap, disk, tmp, doc_dir, logged, environ, config_json,
          interval_sec, slept, excel_names, adopted, lastUp, memVer,
          snapVer, snapDoc,
          tmpVer, diskVer, ret, hpc, qname, source, pos, found, response>>

\* the locals of the request handlers and what they answer
handlerVars == <<hpc, qname, source, pos, found, response>>

cacheVars == <<root, people, loaded, fallback, names, dirty>>
fileVars == <<disk, tmp>>

\* how the flush thread was configured
configVars == <<environ, config_json, interval_sec, slept>>

\* time.sleep(interval_sec) returns: the thread was started with a number
\* that is not negative
SleepReturns == interval_sec.kind = "returned" /\ interval_sec.n >= 0
histVars == <<adopted, lastUp, memVer, snapVer, snapDoc, tmpVer, diskVer>>

\* the dict a reference stands for
Deref(ref) ==
    CASE ref = "loaded" -> loaded
      [] ref = "fallback" -> fallback
      [] ref = "derived" -> Dict(fallback.persons)
      [] ref = "empty" -> Dict(<<>>)
      [] OTHER -> NoneDoc

\* ----------------------------------------------------------------- preload

\* Cache._read_people_json: None when the file is missing or json.load raises
ReadPeopleJson(f) ==
    IF f.kind = "missing" THEN NoneDoc
    ELSE IF f.kind = "garbage" THEN NoneDoc
    ELSE JsonLoad(f)

\* Cache._is_empty: a document without .get raises, which is caught
IsEmpty(d) ==
    IF d.kind = "list" THEN TRUE
    ELSE (~d.has_persons \/ d.persons = <<>>) \/ Len(d.persons) = 0

\* the loop that keeps the first of the names that are equal when lower-cased
RECURSIVE Uniq(_, _, _)
Uniq(ns, seen, uniq) ==
    IF ns = <<>> THEN uniq
    ELSE LET n == Head(ns)
             low == Lower(n.s)
         IN IF low \in seen THEN Uniq(Tail(ns), seen, uniq)
            ELSE Uniq(Tail(ns), seen \cup {low}, Append(uniq, n))

\* the rows of the name column that are non-blank strings, stripped
RECURSIVE StrippedCells(_)
StrippedCells(cells) ==
    IF cells = <<>> THEN <<>>
    ELSE LET val == Head(cells)
         IN IF val.t = "str" /\ Strip(val.s) # <<>>
            THEN <<PyStr(Strip(val.s))>> \o StrippedCells(Tail(cells))
            ELSE StrippedCells(Tail(cells))

\* Cache._load_excel_names: [] without a spreadsheet
LoadExcelNames(dir) ==
    IF ~dir.xls THEN <<>> ELSE Uniq(StrippedCells(dir.cells), {}, <<>>)

\* [p.get('name') for p in persons if p.get('name')]
RECURSIVE JsonNames(_)
JsonNames(persons) ==
    IF persons = <<>> THEN <<>>
    ELSE IF Truthy(GetName(Head(persons)))
         THEN <<GetName(Head(persons))>> \o JsonNames(Tail(persons))
         ELSE JsonNames(Tail(persons))

\* the merge loop of preload
RECURSIVE Merge(_, _, _)
Merge(ns, seen, merged) ==
    IF ns = <<>> THEN merged
    ELSE LET n == Head(ns)
             low == Lower(Str(n))
         IN IF ~Truthy(n) THEN Merge(Tail(ns), seen, merged)
            ELSE IF low \in seen THEN Merge(Tail(ns), seen, merged)
            ELSE Merge(Tail(ns), seen \cup {low}, Append(merged, n))

\* preload without the test of _is_empty
PreloadPeopleNoEmptyTest(d) == IF TruthyDoc(d) THEN "loaded" ELSE "fallback"

\* the reference preload stores in Cache.people
PreloadPeople(d) == IF TruthyDoc(d) /\ ~IsEmpty(d) THEN "loaded" ELSE "fallback"

\* the merge with the names of people.json first
PreloadNamesJsonFirst(excel, persons) == Merge(JsonNames(persons) \o excel, {}, <<>>)

\* the names preload stores in Cache.names
PreloadNames(excel, persons) == Merge(excel \o JsonNames(persons), {}, <<>>)

Preload ==
    /\ root = "None"
    /\ LET d == ReadPeopleJson(disk)
           ref == PreloadPeople(d)
           persons == IF ref = "loaded" THEN d.persons ELSE fallback.persons
           excel == LoadExcelNames(doc_dir)
       IN /\ root' = "ROOT"
          /\ people' = ref
          /\ loaded' = IF ref = "loaded" THEN d ELSE loaded
          /\ excel_names' = excel
          /\ names' = PreloadNames(excel, persons)
          /\ dirty' = FALSE
          /\ adopted' = persons
    /\ UNCHANGED <<fallback, lock, pc, person, fpc, snap, disk, tmp, doc_dir, configVars, logged,
                   lastUp, memVer, snapVer, snapDoc, tmpVer, diskVer, ret>>

\* ------------------------------------------------------------ upsert_person

NoPerson == Person(Missing, 0)

\* the name without .strip()
UpsertNameNoStrip(p) == Str(Get(p, PyStr(<<>>)))

\* str(person.get('name', '')).strip()
UpsertName(p) == Strip(Str(Get(p, PyStr(<<>>))))

\* the comparison without .lower()
NameMatchesCased(p, name) == Strip(Str(Get(p, PyStr(<<>>)))) = name

\* str(p.get('name', '')).strip().lower() == name.lower()
NameMatches(p, name) == Lower(Strip(Str(Get(p, PyStr(<<>>))))) = Lower(name)

\* the search loop: the first index that matches, 0 for None
FindIdx(persons, name) ==
    IF \E i \in DOMAIN persons : NameMatches(persons[i], name)
    THEN CHOOSE i \in DOMAIN persons :
             /\ NameMatches(persons[i], name)
             /\ \A j \in 1..(i - 1) : ~NameMatches(persons[j], name)
    ELSE 0

\* an upsert that keeps only the record it was given
PutAlone(persons, p) == <<p>>

\* persons.append(person) or persons[idx] = person
Put(persons, p) ==
    LET idx == FindIdx(persons, UpsertName(p))
    IN IF idx = 0 THEN Append(persons, p) ELSE [persons EXCEPT ![idx] = p]

\* the held reference as it is
BaseHeld == people

\* base = self.people or fallback
Base == IF people # "None" /\ TruthyDoc(Deref(people)) THEN people ELSE "fallback"

\* Cache.get_people_or_fallback(fallback): self.people or fallback
GetPeopleOrFallback == Deref(Base)

\* upsert_person with a name that is empty once stripped: returns at once
UpsertIgnored(w, p) ==
    /\ root = "ROOT"
    /\ pc[w] = "idle"
    /\ UpsertName(p) = <<>>
    /\ ret' = "ignored"
    /\ UNCHANGED <<cacheVars, lock, pc, person, fpc, snap, fileVars, doc_dir, configVars, logged,
                   excel_names, histVars>>

\* upsert_person that does not wait for the lock
UpsertPersonsUnlocked(w, p) ==
    /\ root = "ROOT"
    /\ pc[w] = "idle"
    /\ memVer < MaxUpserts
    /\ UpsertName(p) # <<>>
    /\ lock' = w
    /\ LET base == Base
           persons == Put(Deref(base).persons, p)
       IN IF base = "loaded"
          THEN /\ loaded' = [loaded EXCEPT !.persons = persons]
               /\ UNCHANGED <<people, fallback>>
          ELSE /\ fallback' = [fallback EXCEPT !.persons = persons]
               /\ people' = "derived"
               /\ UNCHANGED loaded
    /\ pc' = [pc EXCEPT ![w] = "locked"]
    /\ person' = [person EXCEPT ![w] = p]
    /\ lastUp' = [k \in DOMAIN lastUp \cup {Lower(UpsertName(p))} |->
                     IF k = Lower(UpsertName(p)) THEN p ELSE lastUp[k]]
    /\ memVer' = memVer + 1
    /\ UNCHANGED <<root, names, dirty, fpc, snap, disk, tmp, doc_dir, configVars, logged, excel_names,
                   adopted, snapVer, snapDoc, tmpVer, diskVer, ret>>

\* upsert_person up to the assignment of self.people, under the lock
UpsertPersons(w, p) ==
    /\ root = "ROOT"
    /\ pc[w] = "idle"
    /\ memVer < MaxUpserts
    /\ UpsertName(p) # <<>>
    /\ lock = "free"
    /\ lock' = w
    /\ LET base == Base
           persons == Put(Deref(base).persons, p)
       IN IF base = "loaded"
          THEN /\ loaded' = [loaded EXCEPT !.persons = persons]
               /\ UNCHANGED <<people, fallback>>
          ELSE /\ fallback' = [fallback EXCEPT !.persons = persons]
               /\ people' = "derived"
               /\ UNCHANGED loaded
    /\ pc' = [pc EXCEPT ![w] = "locked"]
    /\ person' = [person EXCEPT ![w] = p]
    /\ lastUp' = [k \in DOMAIN lastUp \cup {Lower(UpsertName(p))} |->
                     IF k = Lower(UpsertName(p)) THEN p ELSE lastUp[k]]
    /\ memVer' = memVer + 1
    /\ UNCHANGED <<root, names, dirty, fpc, snap, disk, tmp, doc_dir, configVars, logged, excel_names,
                   adopted, snapVer, snapDoc, tmpVer, diskVer, ret>>

\* n.lower() raises AttributeError for a name that is not a str
LowNamesRaises(ns) == \E i \in DOMAIN ns : ns[i].t # "str"

\* the names when the test compares the name as given
NamesPutCased(ns, name) ==
    IF name \notin {ns[i].s : i \in DOMAIN ns}
    THEN Append(ns, PyStr(name))
    ELSE ns

\* the names after lines 137-139
NamesPut(ns, name) ==
    IF Lower(name) \notin {Lower(ns[i].s) : i \in DOMAIN ns}
    THEN Append(ns, PyStr(name))
    ELSE ns

\* upsert_person from the names on, to the release of the lock; an exception
\* leaves the with block, which releases the lock, and skips the rest
UpsertFinish(w) ==
    /\ pc[w] = "locked"
    /\ IF LowNamesRaises(names)
       THEN /\ UNCHANGED <<names, dirty>>
            /\ ret' = "raised"
       ELSE /\ names' = NamesPut(names, UpsertName(person[w]))
            /\ dirty' = TRUE
            /\ ret' = "returned"
    /\ lock' = "free"
    /\ pc' = [pc EXCEPT ![w] = "idle"]
    /\ person' = [person EXCEPT ![w] = NoPerson]
    /\ UNCHANGED <<root, people, loaded, fallback, fpc, snap, disk, tmp, doc_dir, configVars, logged,
                   excel_names, adopted, lastUp, memVer, snapVer, snapDoc, tmpVer, diskVer>>

\* ---------------------------------------------------------- _periodic_flush

\* a flush thread that does not wait for the lock
FlushAcquireNoWait ==
    /\ root = "ROOT"
    /\ fpc = "sleep"
    /\ SleepReturns
    /\ lock' = "flush"
    /\ fpc' = "locked"
    /\ slept' = interval_sec.n
    /\ UNCHANGED <<cacheVars, pc, person, snap, fileVars, doc_dir, environ, config_json,
                   interval_sec, logged, excel_names, histVars, ret>>

\* the sleep ends and the flush thread takes the lock
FlushAcquire ==
    /\ root = "ROOT"
    /\ fpc = "sleep"
    /\ SleepReturns
    /\ lock = "free"
    /\ lock' = "flush"
    /\ fpc' = "locked"
    /\ slept' = interval_sec.n
    /\ UNCHANGED <<cacheVars, pc, person, snap, fileVars, doc_dir, environ, config_json,
                   interval_sec, logged, excel_names, histVars, ret>>

\* a flush that writes in every cycle
DoWriteAlways == TRUE

\* do_write after the with block
DoWrite == dirty

\* a flush that writes the fallback
SnapshotFallback == "fallback"

\* data = base if isinstance(base, dict) else {'persons': []}, where
\* base = self.people or {'persons': []}
SnapshotData ==
    IF people # "None" /\ TruthyDoc(Deref(people)) /\ Deref(people).kind = "dict"
    THEN people
    ELSE "empty"

\* a cycle that goes on to the save inside the with block
FlushCheckClearKeepsLock ==
    /\ fpc = "locked"
    /\ IF dirty
       THEN /\ snap' = SnapshotData
            /\ dirty' = FALSE
            /\ snapVer' = memVer
            /\ snapDoc' = Deref(SnapshotData)
       ELSE UNCHANGED <<snap, dirty, snapVer, snapDoc>>
    /\ fpc' = IF DoWrite THEN "write" ELSE "sleep"
    /\ lock' = IF DoWrite THEN lock ELSE "free"
    /\ UNCHANGED <<root, people, loaded, fallback, names, pc, person, fileVars,
                   doc_dir, configVars, logged, excel_names, adopted, lastUp, memVer, tmpVer, diskVer, ret>>

\* the with block: test dirty, take the reference, clear dirty; then the lock
\* is released and the cycle ends unless do_write
FlushCheckClear ==
    /\ fpc = "locked"
    /\ IF dirty
       THEN /\ snap' = SnapshotData
            /\ dirty' = FALSE
            /\ snapVer' = memVer
            /\ snapDoc' = Deref(SnapshotData)
       ELSE UNCHANGED <<snap, dirty, snapVer, snapDoc>>
    /\ fpc' = IF DoWrite THEN "write" ELSE "sleep"
    /\ lock' = "free"
    /\ UNCHANGED <<root, people, loaded, fallback, names, pc, person, fileVars,
                   doc_dir, configVars, logged, excel_names, adopted, lastUp, memVer, tmpVer, diskVer, ret>>

\* a save that goes on to os.replace after json.dump raised
SaveWriteTmpGoesOn(outcome) ==
    /\ fpc = "write"
    /\ tmp' = IF outcome = "ok" THEN JsonDump(Deref(snap)) ELSE Partial
    /\ tmpVer' = IF outcome = "ok" THEN memVer ELSE tmpVer
    /\ fpc' = "replace"
    /\ UNCHANGED <<cacheVars, lock, pc, person, snap, disk, doc_dir, configVars, logged, excel_names,
                   adopted, lastUp, memVer, snapVer, snapDoc, diskVer, ret>>

\* open(tmp, 'w') and json.dump: the file holds what the dict holds while it
\* is dumped
SaveWriteTmp(outcome) ==
    /\ fpc = "write"
    /\ CASE outcome = "ok" ->
              /\ tmp' = JsonDump(Deref(snap))
              /\ tmpVer' = memVer
              /\ fpc' = "replace"
         [] outcome = "open_fails" ->
              /\ UNCHANGED <<tmp, tmpVer>>
              /\ fpc' = "cleanup"
         [] OTHER ->
              /\ tmp' = Partial
              /\ UNCHANGED tmpVer
              /\ fpc' = "cleanup"
    /\ UNCHANGED <<cacheVars, lock, pc, person, snap, disk, doc_dir, configVars, logged, excel_names,
                   adopted, lastUp, memVer, snapVer, snapDoc, diskVer, ret>>

\* nothing logged yet
NoLog == [level |-> "none", persons |-> 0]

\* after the save returned, whether or not it wrote the file: logger.info
\* with len(data['persons'])
SaveLog ==
    [level |-> "info", persons |-> Len(Deref(snap).persons)]

\* the logger of the flush thread: the record it takes, or nothing when it
\* raised (the exception is passed over)
Logger(outcome, record) ==
    IF outcome = "logger_raises" THEN logged ELSE record

\* os.replace(tmp, path); when it succeeded the save returns and the cycle
\* logs
SaveReplace(outcome) ==
    /\ fpc = "replace"
    /\ IF outcome # "fails"
       THEN /\ disk' = tmp
            /\ tmp' = NoFile
            /\ diskVer' = tmpVer
            /\ logged' = Logger(outcome, SaveLog)
            /\ fpc' = "sleep"
       ELSE /\ UNCHANGED <<disk, tmp, diskVer, logged>>
            /\ fpc' = "cleanup"
    /\ UNCHANGED <<cacheVars, lock, pc, person, snap, doc_dir, configVars, excel_names,
                   adopted, lastUp, memVer, snapVer, snapDoc, tmpVer, ret>>

\* an except branch that marks the dataset dirty again
SaveCleanupSetsDirty(outcome) ==
    /\ fpc = "cleanup"
    /\ IF tmp.kind # "missing" /\ outcome # "fails"
       THEN tmp' = NoFile
       ELSE UNCHANGED tmp
    /\ dirty' = TRUE
    /\ logged' = Logger(outcome, SaveLog)
    /\ fpc' = "sleep"
    /\ UNCHANGED <<root, people, loaded, fallback, names, lock, pc, person, snap,
                   disk, doc_dir, configVars, excel_names, histVars, ret>>

\* an except branch that lets the exception of the logger out of the loop
SaveCleanupExits(outcome) ==
    /\ fpc = "cleanup"
    /\ IF tmp.kind # "missing" /\ outcome # "fails"
       THEN tmp' = NoFile
       ELSE UNCHANGED tmp
    /\ logged' = Logger(outcome, SaveLog)
    /\ fpc' = IF outcome = "logger_raises" THEN "exited" ELSE "sleep"
    /\ UNCHANGED <<cacheVars, lock, pc, person, snap, disk, doc_dir, configVars, excel_names,
                   histVars, ret>>

\* the except branch: os.remove(tmp) if it exists, whatever that raises is
\* passed over
SaveCleanup(outcome) ==
    /\ fpc = "cleanup"
    /\ IF tmp.kind # "missing" /\ outcome # "fails"
       THEN tmp' = NoFile
       ELSE UNCHANGED tmp
    /\ logged' = Logger(outcome, SaveLog)
    /\ fpc' = "sleep"
    /\ UNCHANGED <<cacheVars, lock, pc, person, snap, disk, doc_dir, configVars, excel_names,
                   histVars, ret>>

\* the except branch in a thread started without a logger (`if logger:` is
\* false): nothing is logged
SaveCleanupNoLogger(outcome) ==
    /\ fpc = "cleanup"
    /\ IF tmp.kind # "missing" /\ outcome # "fails"
       THEN tmp' = NoFile
       ELSE UNCHANGED tmp
    /\ fpc' = "sleep"
    /\ UNCHANGED <<cacheVars, lock, pc, person, snap, disk, doc_dir, configVars, logged,
                   excel_names, histVars, ret>>

\* ------------------------------------------------------ request handlers

\* Cache.get_names(): self.names or []
GetNames == IF names # <<>> THEN names ELSE <<>>

\* what a handler wrote: nothing yet
NoResponse == [kind |-> "none", status |-> 0, body |-> <<>>]

\* the body of a person: the record with its own style
Body(rec) == [name |-> rec.name, style |-> "own", events |-> rec.events, lat |-> rec.lat]

\* {"name": name, "style": None, "events": []}
Placeholder(name) ==
    [name |-> PyStr(name), style |-> "None", events |-> 0, lat |-> PyStr(<<>>)]

\* a lookup that compares as upsert_person does
HandlerMatchCaseless(p, name) == Lower(Strip(Str(Get(p, PyStr(<<>>))))) = Lower(name)

\* str(p.get('name', '')).strip() == name
HandlerMatch(p, name) == Strip(Str(Get(p, PyStr(<<>>)))) = name

\* a test that lets every record through
HasEventsAlways(f) == f # <<>>

\* found and len(found.get('events', [])) > 0
HasEvents(f) == f # <<>> /\ f[1].events > 0

\* the requests under way
Busy == {w \in Workers : hpc[w] # "idle"}

\* handle_people: the payload as json.dumps writes it
HandlePeople(w) ==
    /\ root = "ROOT"
    /\ hpc[w] = "idle"
    /\ response' = [kind |-> "people", status |-> 200, body |-> GetPeopleOrFallback.persons]
    /\ UNCHANGED <<cacheVars, lock, pc, person, fpc, snap, fileVars, doc_dir, configVars, logged,
                   excel_names, histVars, ret, hpc, qname, source, pos, found>>

\* handle_names
HandleNames(w) ==
    /\ root = "ROOT"
    /\ hpc[w] = "idle"
    /\ response' = [kind |-> "names", status |-> 200, body |-> GetNames]
    /\ UNCHANGED <<cacheVars, lock, pc, person, fpc, snap, fileVars, doc_dir, configVars, logged,
                   excel_names, histVars, ret, hpc, qname, source, pos, found>>

\* handle_person with a name that is empty once stripped: 400
HandleMissingName(w, q) ==
    /\ root = "ROOT"
    /\ hpc[w] = "idle"
    /\ Strip(q) = <<>>
    /\ response' = [kind |-> "error", status |-> 400, body |-> <<>>]
    /\ UNCHANGED <<cacheVars, lock, pc, person, fpc, snap, fileVars, doc_dir, configVars, logged,
                   excel_names, histVars, ret, hpc, qname, source, pos, found>>

\* handle_person up to the for loop: the name, and the reference that
\* get_people_or_fallback returns, read without the lock
HandleStart(w, q) ==
    /\ root = "ROOT"
    /\ hpc[w] = "idle"
    /\ pc[w] = "idle"
    /\ memVer + Cardinality(Busy) < MaxUpserts
    /\ Strip(q) # <<>>
    /\ qname' = [qname EXCEPT ![w] = Strip(q)]
    /\ source' = [source EXCEPT ![w] = Base]
    /\ pos' = [pos EXCEPT ![w] = 1]
    /\ found' = [found EXCEPT ![w] = <<>>]
    /\ hpc' = [hpc EXCEPT ![w] = "scan"]
    /\ UNCHANGED <<cacheVars, lock, pc, person, fpc, snap, fileVars, doc_dir, configVars, logged,
                   excel_names, histVars, ret, response>>

\* one turn of the for loop over the list, as the list is at this moment
HandleScan(w) ==
    /\ hpc[w] = "scan"
    /\ LET ps == Deref(source[w]).persons
       IN IF pos[w] > Len(ps)
          THEN /\ hpc' = [hpc EXCEPT ![w] = "resolve"]
               /\ pos' = [pos EXCEPT ![w] = 0]
               /\ UNCHANGED found
          ELSE IF HandlerMatch(ps[pos[w]], qname[w])
          THEN /\ found' = [found EXCEPT ![w] = <<ps[pos[w]]>>]
               /\ hpc' = [hpc EXCEPT ![w] = "cache"]
               /\ UNCHANGED pos
          ELSE /\ pos' = [pos EXCEPT ![w] = pos[w] + 1]
               /\ UNCHANGED <<hpc, found>>
    /\ UNCHANGED <<cacheVars, lock, pc, person, fpc, snap, fileVars, doc_dir, configVars, logged,
                   excel_names, histVars, ret, qname, source, response>>

\* a handler that lets the exception of the collaborator out
HandleResolveUncaught(w, o) ==
    /\ hpc[w] = "resolve"
    /\ IF o.raises
       THEN /\ response' = [kind |-> "exception", status |-> 500, body |-> <<>>]
            /\ hpc' = [hpc EXCEPT ![w] = "idle"]
            /\ UNCHANGED found
       ELSE /\ found' = [found EXCEPT ![w] = <<Person(PyStr(qname[w]), o.events)>>]
            /\ hpc' = [hpc EXCEPT ![w] = "cache"]
            /\ UNCHANGED response
    /\ UNCHANGED <<cacheVars, lock, pc, person, fpc, snap, fileVars, doc_dir, configVars, logged,
                   excel_names, histVars, ret, qname, source, pos>>

\* deepseek.get_person_timeline(name) inside try/except: a record under the
\* name asked for, or None when it raised
HandleResolve(w, o) ==
    /\ hpc[w] = "resolve"
    /\ found' = [found EXCEPT ![w] =
                    IF o.raises THEN <<>> ELSE <<Person(PyStr(qname[w]), o.events)>>]
    /\ hpc' = [hpc EXCEPT ![w] = "cache"]
    /\ UNCHANGED <<cacheVars, lock, pc, person, fpc, snap, fileVars, doc_dir, configVars, logged,
                   excel_names, histVars, ret, qname, source, pos, response>>

\* a record without events, or None: upsert_person is not called
HandleSkip(w) ==
    /\ hpc[w] = "cache"
    /\ ~HasEvents(found[w])
    /\ hpc' = [hpc EXCEPT ![w] = "respond"]
    /\ UNCHANGED <<cacheVars, lock, pc, person, fpc, snap, fileVars, doc_dir, configVars, logged,
                   excel_names, histVars, ret, qname, source, pos, found, response>>

\* cache.upsert_person(found, fallback), up to the assignment of self.people
HandleUpsert(w) ==
    /\ hpc[w] = "cache"
    /\ HasEvents(found[w])
    /\ IF UpsertName(found[w][1]) = <<>>
       THEN UpsertIgnored(w, found[w][1]) /\ hpc' = [hpc EXCEPT ![w] = "respond"]
       ELSE UpsertPersons(w, found[w][1]) /\ hpc' = [hpc EXCEPT ![w] = "upserting"]
    /\ UNCHANGED <<qname, source, pos, found, response>>

\* the rest of upsert_person; what it raises is passed over
HandleUpsertDone(w) ==
    /\ hpc[w] = "upserting"
    /\ UpsertFinish(w)
    /\ hpc' = [hpc EXCEPT ![w] = "respond"]
    /\ UNCHANGED <<qname, source, pos, found, response>>

\* the record found when it has events, the placeholder otherwise
HandleRespond(w) ==
    /\ hpc[w] = "respond"
    /\ response' = [kind |-> "person", status |-> 200,
                    body |-> IF found[w] = <<>> \/ found[w][1].events = 0
                             THEN Placeholder(qname[w])
                             ELSE Body(found[w][1])]
    /\ hpc' = [hpc EXCEPT ![w] = "idle"]
    /\ qname' = [qname EXCEPT ![w] = <<>>]
    /\ source' = [source EXCEPT ![w] = "None"]
    /\ pos' = [pos EXCEPT ![w] = 0]
    /\ found' = [found EXCEPT ![w] = <<>>]
    /\ UNCHANGED <<cacheVars, lock, pc, person, fpc, snap, fileVars, doc_dir, configVars, logged,
                   excel_names, histVars, ret>>

\* ------------------------------------------------------------- environment

JStr(s) == [t |-> "string", s |-> s]
JNum(s) == [t |-> "number", s |-> s]

\* a person as people.json holds it
JPerson(name, n, lat) == [name |-> name, events |-> n, lat |-> lat]

\* people.json when the server starts: files that hold no dataset
BadFiles ==
    { NoFile, Partial,
      [NoFile EXCEPT !.kind = "null"],
      [NoFile EXCEPT !.kind = "array"],
      [NoFile EXCEPT !.kind = "object"],
      [NoFile EXCEPT !.kind = "object", !.extra = TRUE],
      [NoFile EXCEPT !.kind = "object", !.has_persons = TRUE] }

\* people.json when the server starts: files that hold persons
GoodFiles ==
    { [kind |-> "object", extra |-> FALSE, has_persons |-> TRUE, persons |-> ps] :
        ps \in { <<JPerson(JStr(<<"a">>), 1, JNum(<<"3">>))>>,
                 <<JPerson(JStr(<<" ", "b">>), 1, JStr(<<>>))>>,
                 <<JPerson(JStr(<<"A">>), 1, JStr(<<>>)),
                   JPerson(JStr(<<"b">>), 1, JNum(<<"3">>))>>,
                 <<JPerson(JStr(<<"a">>), 1, JStr(<<>>)),
                   JPerson(JStr(<<"A", " ">>), 2, JStr(<<>>))>>,
                 <<JPerson(JNum(<<"7">>), 1, JStr(<<>>)),
                   JPerson(JStr(<<"a">>), 1, JStr(<<>>))>>,
                 <<JPerson([t |-> "absent", s |-> <<>>], 1, JStr(<<>>)),
                   JPerson(JStr(<<" ">>), 1, JStr(<<>>)),
                   JPerson([t |-> "null", s |-> <<>>], 1, JStr(<<>>))>> } }

\* the name column of the spreadsheet, when there is one
Sheets ==
    { [xls |-> FALSE, cells |-> <<>>],
      [xls |-> TRUE, cells |-> <<PyStr(<<" ", "b">>), PyInt(<<"7">>), PyStr(<<"B">>),
                                 PyStr(<<" ">>), PyStr(<<"A">>)>>] }

\* the files the server starts with: every people.json without a
\* spreadsheet, and some of them beside a spreadsheet
Startups ==
    { <<f, sh>> \in (BadFiles \cup GoodFiles) \X Sheets :
        sh.xls => (f.kind = "missing" \/ (f.has_persons /\ Len(f.persons) = 2)) }

\* what a caller passes to upsert_person
UpsertArgs ==
    { Person(n, e) : n \in { PyStr(<<"a">>), PyStr(<<" ", "A">>), PyStr(<<"b">>) },
                     e \in {1, 2} }
    \cup { Person(n, 1) : n \in { PyStr(<<" ">>), PyStr(<<>>), Missing } }

\* people.json when the server that takes requests starts
HandlerStartups ==
    { <<f, [xls |-> FALSE, cells |-> <<>>]>> :
        f \in { NoFile,
                [kind |-> "object", extra |-> FALSE, has_persons |-> TRUE,
                 persons |-> <<JPerson(JStr(<<"A">>), 1, JStr(<<>>)),
                               JPerson(JStr(<<"b">>), 0, JNum(<<"3">>))>>],
                [kind |-> "object", extra |-> FALSE, has_persons |-> TRUE,
                 persons |-> <<JPerson(JNum(<<"7">>), 1, JStr(<<>>)),
                               JPerson(JStr(<<"a">>), 1, JStr(<<>>))>>] } }

\* the name parameter of a request to /api/person
Queries == { <<"a">>, <<"A", " ">>, <<"b">>, <<" ">> }

\* what the collaborator does: it raises, or returns a record with so many
\* events
Resolutions ==
    { [raises |-> TRUE, events |-> 0], [raises |-> FALSE, events |-> 0],
      [raises |-> FALSE, events |-> 2] }

\* --------------------------------------------------------- specification

InitCache(startups) ==
    /\ root = "None"
    /\ people = "None"
    /\ loaded = NoneDoc
    /\ fallback = FALLBACK
    /\ names = <<>>
    /\ dirty = FALSE
    /\ lock = "free"
    /\ pc = [w \in Workers |-> "idle"]
    /\ person = [w \in Workers |-> NoPerson]
    /\ fpc = "sleep"
    /\ snap = "None"
    /\ \E st \in startups : disk = st[1] /\ doc_dir = st[2]
    /\ tmp = NoFile
    /\ excel_names = <<>>
    /\ adopted = <<>>
    /\ lastUp = [k \in {} |-> NoPerson]
    /\ memVer = 0
    /\ snapVer = 0
    /\ snapDoc = NoneDoc
    /\ logged = NoLog
    /\ tmpVer = 0
    /\ diskVer = 0
    /\ ret = "none"
    /\ hpc = [w \in Workers |-> "idle"]
    /\ qname = [w \in Workers |-> <<>>]
    /\ source = [w \in Workers |-> "None"]
    /\ pos = [w \in Workers |-> 0]
    /\ found = [w \in Workers |-> <<>>]
    /\ response = NoResponse

\* the server with nothing configured: the flush thread sleeps the default
\* interval
InitFrom(startups) ==
    /\ InitCache(startups)
    /\ environ = Unset
    /\ config_json = NoConfig
    /\ interval_sec = Returned(30)
    /\ slept = 30

\* The cache and its flush thread under direct calls of upsert_person.
Init == InitFrom(Startups)

Next ==
    \/ Preload /\ UNCHANGED handlerVars
    \/ \E w \in Workers, p \in UpsertArgs : UpsertPersons(w, p) /\ UNCHANGED handlerVars
    \/ \E w \in Workers : UpsertFinish(w) /\ UNCHANGED handlerVars
    \/ FlushAcquire /\ UNCHANGED handlerVars
    \/ FlushCheckClear /\ UNCHANGED handlerVars
    \/ \E o \in {"ok", "open_fails", "dump_fails"} : SaveWriteTmp(o) /\ UNCHANGED handlerVars
    \/ \E o \in {"ok", "fails"} : SaveReplace(o) /\ UNCHANGED handlerVars
    \/ \E o \in {"ok", "fails"} : SaveCleanup(o) /\ UNCHANGED handlerVars

Spec == Init /\ [][Next]_vars

\* The same with the calls of upsert_person that return at once on record:
\* a call whose name is empty once stripped changes nothing, so that only ret
\* tells that it was made.
CallInit == InitFrom(HandlerStartups)

CallNext ==
    \/ Next
    \/ \E w \in Workers, p \in UpsertArgs : UpsertIgnored(w, p) /\ UNCHANGED handlerVars

CallSpec == CallInit /\ [][CallNext]_vars

\* The server between two flush cycles: the cache and the request handlers,
\* which are the only callers of upsert_person; the flush thread sleeps (it
\* shares the lock and dirty with them, and Spec has its cycles).
HandlerInit == InitFrom(HandlerStartups)

HandlerNext ==
    \/ Preload /\ UNCHANGED handlerVars
    \/ \E w \in Workers : HandlePeople(w)
    \/ \E w \in Workers : HandleNames(w)
    \/ \E w \in Workers, q \in Queries : HandleMissingName(w, q)
    \/ \E w \in Workers, q \in Queries : HandleStart(w, q)
    \/ \E w \in Workers : HandleScan(w)
    \/ \E w \in Workers, o \in Resolutions : HandleResolve(w, o)
    \/ \E w \in Workers : HandleSkip(w)
    \/ \E w \in Workers : HandleUpsert(w)
    \/ \E w \in Workers : HandleUpsertDone(w)
    \/ \E w \in Workers : HandleRespond(w)

HandlerSpec == HandlerInit /\ [][HandlerNext]_vars

\* The cache and its flush thread when every write succeeds and the threads
\* keep running: the flush thread is a daemon thread in a `while True` loop
\* whose sleep always ends (cache.py:159-165), and a worker inside the with
\* block of upsert_person runs to its end, so each of them takes its next
\* step whenever that step stays possible.
LiveInit == InitFrom(HandlerStartups)

FlushStepOk ==
    /\ \/ FlushAcquire
       \/ FlushCheckClear
       \/ SaveWriteTmp("ok")
       \/ SaveReplace("ok")
    /\ UNCHANGED handlerVars

WorkerStep(w) == UpsertFinish(w) /\ UNCHANGED handlerVars

LiveNext ==
    \/ Preload /\ UNCHANGED handlerVars
    \/ \E w \in Workers, p \in UpsertArgs : UpsertPersons(w, p) /\ UNCHANGED handlerVars
    \/ \E w \in Workers : WorkerStep(w)
    \/ FlushStepOk

LiveSpec ==
    /\ LiveInit /\ [][LiveNext]_vars
    /\ WF_vars(FlushStepOk)
    /\ \A w \in Workers : WF_vars(WorkerStep(w))

\* The same threads when writes and the logger may fail.
FairInit == InitFrom(HandlerStartups)

FlushStep ==
    /\ \/ FlushAcquire
       \/ FlushCheckClear
       \/ \E o \in {"ok", "open_fails", "dump_fails"} : SaveWriteTmp(o)
       \/ \E o \in {"ok", "logger_raises", "fails"} : SaveReplace(o)
       \/ \E o \in {"ok", "logger_raises", "fails"} : SaveCleanup(o)
    /\ UNCHANGED handlerVars

\* the calls of upsert_person beside the flush loop: one record per name
FairArgs == {p \in UpsertArgs : p.events = 1}

FairNext ==
    \/ Preload /\ UNCHANGED handlerVars
    \/ \E w \in Workers, p \in FairArgs : UpsertPersons(w, p) /\ UNCHANGED handlerVars
    \/ \E w \in Workers : WorkerStep(w)
    \/ FlushStep

FairSpec ==
    /\ FairInit /\ [][FairNext]_vars
    /\ WF_vars(FlushStep)
    /\ \A w \in Workers : WF_vars(WorkerStep(w))

\* ------------------------------------------------- the configured interval

\* run() has not called _start_flush_background yet
NotStarted == [kind |-> "unset", n |-> 0]

\* FLUSH_INTERVAL_SEC in the environment of the server process
Environs ==
    { Unset, SetTo(<<"4", "5">>), SetTo(<<"a">>), SetTo(<<>>),
      SetTo(<<" ", "7", " ">>), SetTo(<<"-", "5">>), SetTo(<<"4", ".", "5">>),
      SetTo(<<"0">>) }

\* config/config.json when the server starts
Configs ==
    { NoConfig, BadConfig, OtherConfig, EmptyConfig,
      ConfigOf(PyInt(<<"6", "0">>)), ConfigOf(PyInt(<<"-", "3">>)),
      ConfigOf(PyStr(<<"1", "5">>)), ConfigOf(PyStr(<<"a">>)), ConfigOf(PyNone),
      ConfigOf(PyFloat(<<"2", ".", "5">>)), ConfigOf(PyBool(TRUE)) }

ConfigStartups == { <<NoFile, [xls |-> FALSE, cells |-> <<>>]>> }
ConfigArgs == { Person(PyStr(<<"a">>), 1) }

\* The server from run() on: preload, then the flush thread is started with
\* the interval the configuration gives, then requests are served.
ConfigInit ==
    /\ InitCache(ConfigStartups)
    /\ environ \in Environs
    /\ config_json \in Configs
    /\ interval_sec = NotStarted
    /\ slept = 0

\* _start_flush_background(): the thread gets get_flush_interval_sec() as its
\* interval_sec; when that raises, run() logs the failure and returns
StartFlushBackground ==
    /\ root = "ROOT"
    /\ interval_sec = NotStarted
    /\ interval_sec' = GetFlushIntervalSec(environ, config_json)
    /\ UNCHANGED <<cacheVars, lock, pc, person, fpc, snap, fileVars, doc_dir, environ,
                   config_json, slept, logged, excel_names, histVars, ret, handlerVars>>

\* time.sleep(interval_sec) raises ValueError for a negative number, outside
\* the try of the loop: the thread ends
FlushSleepRaises ==
    /\ root = "ROOT"
    /\ fpc = "sleep"
    /\ interval_sec.kind = "returned"
    /\ interval_sec.n < 0
    /\ fpc' = "exited"
    /\ UNCHANGED <<cacheVars, lock, pc, person, snap, fileVars, doc_dir, configVars,
                   logged, excel_names, histVars, ret, handlerVars>>

\* httpd.serve_forever() is reached
Serving == interval_sec.kind = "returned"

ConfigNext ==
    \/ Preload /\ UNCHANGED handlerVars
    \/ StartFlushBackground
    \/ \E w \in Workers, p \in ConfigArgs :
          Serving /\ UpsertPersons(w, p) /\ UNCHANGED handlerVars
    \/ \E w \in Workers : WorkerStep(w)
    \/ FlushStepOk
    \/ FlushSleepRaises

ConfigSpec == ConfigInit /\ [][ConfigNext]_vars

\* ------------------------------------------ the single-file server (legacy)

\* preload_cache() of src/index.py: CACHE['people'], CACHE['names'] and
\* CACHE['dirty'] are people, names and dirty; the statements are those of
\* Cache.preload
LegacyPreloadCache == Preload /\ UNCHANGED handlerVars

\* do_GET, /api/people: FALLBACK when `not data or is_empty(data)`
LegacyPeople(w) ==
    /\ root = "ROOT"
    /\ hpc[w] = "idle"
    /\ response' = [kind |-> "people", status |-> 200,
                    body |-> IF people = "None" \/ ~TruthyDoc(Deref(people))
                                \/ IsEmpty(Deref(people))
                             THEN fallback.persons
                             ELSE Deref(people).persons]
    /\ UNCHANGED <<cacheVars, lock, pc, person, fpc, snap, fileVars, doc_dir, configVars, logged,
                   excel_names, histVars, ret, hpc, qname, source, pos, found>>

\* do_GET, /api/names: CACHE.get('names') or []
LegacyNames(w) ==
    /\ root = "ROOT"
    /\ hpc[w] = "idle"
    /\ response' = [kind |-> "names", status |-> 200,
                    body |-> IF names # <<>> THEN names ELSE <<>>]
    /\ UNCHANGED <<cacheVars, lock, pc, person, fpc, snap, fileVars, doc_dir, configVars, logged,
                   excel_names, histVars, ret, hpc, qname, source, pos, found>>

\* do_GET, /api/person with a name that is empty once stripped: 400
LegacyMissingName(w, q) ==
    /\ root = "ROOT"
    /\ hpc[w] = "idle"
    /\ Strip(q) = <<>>
    /\ response' = [kind |-> "error", status |-> 400, body |-> <<>>]
    /\ UNCHANGED <<cacheVars, lock, pc, person, fpc, snap, fileVars, doc_dir, configVars, logged,
                   excel_names, histVars, ret, hpc, qname, source, pos, found>>

\* do_GET, /api/person up to the for loop: source = CACHE.get('people') or
\* FALLBACK, read without the lock
LegacyStart(w, q) ==
    /\ root = "ROOT"
    /\ hpc[w] = "idle"
    /\ pc[w] = "idle"
    /\ memVer + Cardinality(Busy) < MaxUpserts
    /\ Strip(q) # <<>>
    /\ qname' = [qname EXCEPT ![w] = Strip(q)]
    /\ source' = [source EXCEPT ![w] =
                     IF people # "None" /\ TruthyDoc(Deref(people)) THEN people
                     ELSE "fallback"]
    /\ pos' = [pos EXCEPT ![w] = 1]
    /\ found' = [found EXCEPT ![w] = <<>>]
    /\ hpc' = [hpc EXCEPT ![w] = "scan"]
    /\ UNCHANGED <<cacheVars, lock, pc, person, fpc, snap, fileVars, doc_dir, configVars, logged,
                   excel_names, histVars, ret, response>>

\* one turn of `for p in persons`: str(p.get('name', '')).strip() == name
LegacyScan(w) ==
    /\ hpc[w] = "scan"
    /\ LET ps == Deref(source[w]).persons
       IN IF pos[w] > Len(ps)
          THEN /\ hpc' = [hpc EXCEPT ![w] = "resolve"]
               /\ pos' = [pos EXCEPT ![w] = 0]
               /\ UNCHANGED found
          ELSE IF Strip(Str(Get(ps[pos[w]], PyStr(<<>>)))) = qname[w]
          THEN /\ found' = [found EXCEPT ![w] = <<ps[pos[w]]>>]
               /\ hpc' = [hpc EXCEPT ![w] = "cache"]
               /\ UNCHANGED pos
          ELSE /\ pos' = [pos EXCEPT ![w] = pos[w] + 1]
               /\ UNCHANGED <<hpc, found>>
    /\ UNCHANGED <<cacheVars, lock, pc, person, fpc, snap, fileVars, doc_dir, configVars, logged,
                   excel_names, histVars, ret, qname, source, response>>

\* found = deepseek.get_person_timeline(name) inside try/except: pass, so
\* found stays None when it raised
LegacyResolve(w, o) ==
    /\ hpc[w] = "resolve"
    /\ found' = [found EXCEPT ![w] =
                    IF o.raises THEN found[w] ELSE <<Person(PyStr(qname[w]), o.events)>>]
    /\ hpc' = [hpc EXCEPT ![w] = "cache"]
    /\ UNCHANGED <<cacheVars, lock, pc, person, fpc, snap, fileVars, doc_dir, configVars, logged,
                   excel_names, histVars, ret, qname, source, pos, response>>

\* `found and len(found.get('events', [])) > 0` is false: no cache write
LegacySkip(w) ==
    /\ hpc[w] = "cache"
    /\ ~(found[w] # <<>> /\ found[w][1].events > 0)
    /\ hpc' = [hpc EXCEPT ![w] = "respond"]
    /\ UNCHANGED <<cacheVars, lock, pc, person, fpc, snap, fileVars, doc_dir, configVars, logged,
                   excel_names, histVars, ret, qname, source, pos, found, response>>

\* the search of the cache write, by the name of the request:
\* str(p.get('name', '')).strip().lower() == name.lower(), then
\* persons.append(found) or persons[idx] = found
LegacyPut(persons, rec, name) ==
    LET hits == {i \in DOMAIN persons :
                    Lower(Strip(Str(Get(persons[i], PyStr(<<>>))))) = Lower(name)}
    IN IF hits = {} THEN Append(persons, rec)
       ELSE [persons EXCEPT ![CHOOSE i \in hits : \A j \in hits : i <= j] = rec]

\* the cache write under CACHE_LOCK, up to the assignment of CACHE['people']
LegacyUpsert(w) ==
    /\ hpc[w] = "cache"
    /\ found[w] # <<>> /\ found[w][1].events > 0
    /\ pc[w] = "idle"
    /\ memVer < MaxUpserts
    /\ lock = "free"
    /\ lock' = w
    /\ LET base == IF people # "None" /\ TruthyDoc(Deref(people)) THEN people
                   ELSE "fallback"
           persons == LegacyPut(Deref(base).persons, found[w][1], qname[w])
       IN IF base = "fallback"
          THEN /\ fallback' = [fallback EXCEPT !.persons = persons]
               /\ people' = "derived"
               /\ UNCHANGED loaded
          ELSE IF base = "loaded"
          THEN /\ loaded' = [loaded EXCEPT !.persons = persons]
               /\ UNCHANGED <<people, fallback>>
          ELSE /\ fallback' = [fallback EXCEPT !.persons = persons]
               /\ UNCHANGED <<people, loaded>>
    /\ pc' = [pc EXCEPT ![w] = "locked"]
    /\ person' = [person EXCEPT ![w] = found[w][1]]
    /\ lastUp' = [k \in DOMAIN lastUp \cup {Lower(qname[w])} |->
                     IF k = Lower(qname[w]) THEN found[w][1] ELSE lastUp[k]]
    /\ memVer' = memVer + 1
    /\ hpc' = [hpc EXCEPT ![w] = "upserting"]
    /\ UNCHANGED <<root, names, dirty, fpc, snap, disk, tmp, doc_dir, configVars, logged,
                   excel_names, adopted, snapVer, snapDoc, tmpVer, diskVer, ret,
                   qname, source, pos, found, response>>

\* the rest of the cache write: the names, dirty, the release of the lock;
\* `except Exception: pass` around the whole with block
LegacyUpsertDone(w) ==
    /\ hpc[w] = "upserting"
    /\ pc[w] = "locked"
    /\ IF \E i \in DOMAIN names : names[i].t # "str"
       THEN /\ UNCHANGED <<names, dirty>>
            /\ ret' = "raised"
       ELSE /\ names' = IF Lower(qname[w]) \notin {Lower(names[i].s) : i \in DOMAIN names}
                        THEN Append(names, PyStr(qname[w]))
                        ELSE names
            /\ dirty' = TRUE
            /\ ret' = "returned"
    /\ lock' = "free"
    /\ pc' = [pc EXCEPT ![w] = "idle"]
    /\ person' = [person EXCEPT ![w] = NoPerson]
    /\ hpc' = [hpc EXCEPT ![w] = "respond"]
    /\ UNCHANGED <<root, people, loaded, fallback, fpc, snap, disk, tmp, doc_dir, configVars,
                   logged, excel_names, adopted, lastUp, memVer, snapVer, snapDoc, tmpVer,
                   diskVer, qname, source, pos, found, response>>

\* `if len(found.get('events', [])) == 0` without a test of found: None has
\* no get, do_GET ends with AttributeError and writes no response; otherwise
\* the record found, or the placeholder when it has no events
LegacyRespond(w) ==
    /\ hpc[w] = "respond"
    /\ response' = IF found[w] = <<>>
                   THEN [kind |-> "exception", status |-> 0, body |-> <<>>]
                   ELSE [kind |-> "person", status |-> 200,
                         body |-> IF found[w][1].events = 0
                                  THEN Placeholder(qname[w])
                                  ELSE Body(found[w][1])]
    /\ hpc' = [hpc EXCEPT ![w] = "idle"]
    /\ qname' = [qname EXCEPT ![w] = <<>>]
    /\ source' = [source EXCEPT ![w] = "None"]
    /\ pos' = [pos EXCEPT ![w] = 0]
    /\ found' = [found EXCEPT ![w] = <<>>]
    /\ UNCHANGED <<cacheVars, lock, pc, person, fpc, snap, fileVars, doc_dir, configVars, logged,
                   excel_names, histVars, ret>>

\* _periodic_flush of src/index.py: time.sleep(interval_sec), then
\* `with CACHE_LOCK`
LegacyFlushAcquire ==
    /\ root = "ROOT"
    /\ fpc = "sleep"
    /\ interval_sec.kind = "returned" /\ interval_sec.n >= 0
    /\ lock = "free"
    /\ lock' = "flush"
    /\ fpc' = "locked"
    /\ slept' = interval_sec.n
    /\ UNCHANGED <<cacheVars, pc, person, snap, fileVars, doc_dir, environ, config_json,
                   interval_sec, logged, excel_names, histVars, ret, handlerVars>>

\* people = CACHE.get('people') or FALLBACK;
\* data = people if isinstance(people, dict) else {'persons': []}
LegacySnapshotData ==
    LET ref == IF people # "None" /\ TruthyDoc(Deref(people)) THEN people ELSE "fallback"
    IN IF Deref(ref).kind = "dict" THEN ref ELSE "empty"

\* the with block: `continue` when not dirty, else the reference is taken and
\* dirty cleared; the lock is released either way
LegacyFlushCheckClear ==
    /\ fpc = "locked"
    /\ IF dirty
       THEN /\ snap' = LegacySnapshotData
            /\ dirty' = FALSE
            /\ snapVer' = memVer
            /\ snapDoc' = Deref(LegacySnapshotData)
            /\ fpc' = "write"
       ELSE /\ UNCHANGED <<snap, dirty, snapVer, snapDoc>>
            /\ fpc' = "sleep"
    /\ lock' = "free"
    /\ UNCHANGED <<root, people, loaded, fallback, names, pc, person, fileVars, doc_dir,
                   configVars, logged, excel_names, adopted, lastUp, memVer, tmpVer, diskVer,
                   ret, handlerVars>>

\* _save_people_json_atomic of src/index.py: open(tmp, 'w') and json.dump
LegacySaveWriteTmp(outcome) ==
    /\ fpc = "write"
    /\ CASE outcome = "ok" ->
              /\ tmp' = JsonDump(Deref(snap))
              /\ tmpVer' = memVer
              /\ fpc' = "replace"
         [] outcome = "open_fails" ->
              /\ UNCHANGED <<tmp, tmpVer>>
              /\ fpc' = "cleanup"
         [] OTHER ->
              /\ tmp' = Partial
              /\ UNCHANGED tmpVer
              /\ fpc' = "cleanup"
    /\ UNCHANGED <<cacheVars, lock, pc, person, snap, disk, doc_dir, configVars, logged,
                   excel_names, adopted, lastUp, memVer, snapVer, snapDoc, diskVer, ret,
                   handlerVars>>

\* os.replace(tmp, path); nothing is logged
LegacySaveReplace(outcome) ==
    /\ fpc = "replace"
    /\ IF outcome # "fails"
       THEN /\ disk' = tmp
            /\ tmp' = NoFile
            /\ diskVer' = tmpVer
            /\ fpc' = "sleep"
       ELSE /\ UNCHANGED <<disk, tmp, diskVer>>
            /\ fpc' = "cleanup"
    /\ UNCHANGED <<cacheVars, lock, pc, person, snap, doc_dir, configVars, logged, excel_names,
                   adopted, lastUp, memVer, snapVer, snapDoc, tmpVer, ret, handlerVars>>

\* the except branch of the save: os.remove(tmp) if it exists, whatever that
\* raises is passed over
LegacySaveCleanup(outcome) ==
    /\ fpc = "cleanup"
    /\ IF tmp.kind # "missing" /\ outcome # "fails"
       THEN tmp' = NoFile
       ELSE UNCHANGED tmp
    /\ fpc' = "sleep"
    /\ UNCHANGED <<cacheVars, lock, pc, person, snap, disk, doc_dir, configVars, logged,
                   excel_names, histVars, ret, handlerVars>>

\* the requests and the files of the comparison
LegacyQueries == { <<"a">>, <<"b">>, <<" ">> }
LegacyStartups ==
    { <<f, [xls |-> FALSE, cells |-> <<>>]>> :
        f \in { NoFile,
                [kind |-> "object", extra |-> FALSE, has_persons |-> TRUE,
                 persons |-> <<JPerson(JStr(<<"A">>), 1, JStr(<<>>)),
                               JPerson(JStr(<<"b">>), 0, JNum(<<"3">>))>>] } }

\* The single-file server: run() preloads, starts _periodic_flush with the
\* fixed interval 30 and serves.
LegacyInit == InitFrom(LegacyStartups)

LegacyNext ==
    \/ LegacyPreloadCache
    \/ \E w \in Workers : LegacyPeople(w)
    \/ \E w \in Workers : LegacyNames(w)
    \/ \E w \in Workers, q \in LegacyQueries : LegacyMissingName(w, q)
    \/ \E w \in Workers, q \in LegacyQueries : LegacyStart(w, q)
    \/ \E w \in Workers : LegacyScan(w)
    \/ \E w \in Workers, o \in Resolutions : LegacyResolve(w, o)
    \/ \E w \in Workers : LegacySkip(w)
    \/ \E w \in Workers : LegacyUpsert(w)
    \/ \E w \in Workers : LegacyUpsertDone(w)
    \/ \E w \in Workers : LegacyRespond(w)
    \/ LegacyFlushAcquire
    \/ LegacyFlushCheckClear
    \/ \E o \in {"ok", "open_fails", "dump_fails"} : LegacySaveWriteTmp(o)
    \/ \E o \in {"ok", "fails"} : LegacySaveReplace(o)
    \/ \E o \in {"ok", "fails"} : LegacySaveCleanup(o)

LegacySpec == LegacyInit /\ [][LegacyNext]_vars

\* what the refactored server (Cache plus routes plus its flush thread) does
\* in one step
RefactoredNext ==
    \/ HandlerNext
    \/ FlushStep
    \/ \E o \in {"ok", "fails"} : SaveCleanupNoLogger(o) /\ UNCHANGED handlerVars

\* ------------------------------------------------------------------ claims

\* the key upsert_person finds a person by: its name as a string, stripped
\* and lower-cased
Key(p) == Lower(UpsertName(p))

KeysDistinct(ps) == \A i, j \in DOMAIN ps : i # j => Key(ps[i]) # Key(ps[j])

Idle == \A w \in Workers : pc[w] = "idle"

\* C1: when the dataset preload adopted has pairwise distinct names under
\* the comparison of upsert (stripped, lower-cased), then after any upserts
\* the persons hold at most one record per such name, and for every name
\* upserted that record is the argument of the latest upsert of the name.
C1_UpsertKeepsNamesUnique ==
    (root = "ROOT" /\ KeysDistinct(adopted)) =>
        LET ps == GetPeopleOrFallback.persons
        IN /\ KeysDistinct(ps)
           /\ \A k \in DOMAIN lastUp :
                \E i \in DOMAIN ps : Key(ps[i]) = k /\ ps[i] = lastUp[k]

\* C1 witness: two upserts are done, one replaced an adopted record under a
\* name written differently, the other appended a record.
C1_Witness ==
    /\ root = "ROOT" /\ Idle /\ KeysDistinct(adopted)
    /\ memVer = 2
    /\ LET ps == GetPeopleOrFallback.persons
       IN /\ Len(ps) = Len(adopted) + 1
          /\ \E i \in DOMAIN adopted :
                /\ ps[i] # adopted[i]
                /\ Str(ps[i].name) # Str(adopted[i].name)

\* the dataset holds upserts that people.json does not hold
Unsaved == diskVer < memVer

\* C2: dirty is true exactly when the dataset holds upserts that
\* people.json does not yet hold; stated for the states in which no thread
\* is inside upsert_person or a flush cycle and every name is a string,
\* where the claim asks least of the code.
C2_DirtyIffUnsaved ==
    (root = "ROOT" /\ Idle /\ fpc = "sleep" /\ ~LowNamesRaises(names)) =>
        (dirty <=> Unsaved)

\* C3: dirty is cleared only by a completed write of the snapshot taken
\* when it is cleared: a flush cycle that cleared dirty does not end before
\* people.json holds that snapshot.
C3_ClearedOnlyByCompletedWrite ==
    [][(fpc \in {"write", "replace", "cleanup"} /\ fpc' = "sleep") =>
          (diskVer' >= snapVer' /\ ReadPeopleJson(disk').kind = "dict")]_vars

\* the destination changes only by the rename of a fully written temporary
\* file, and every step of a failed save leaves it alone
DestinationIntact ==
    /\ disk' # disk => (fpc = "replace" /\ tmp.kind = "object" /\ disk' = tmp)
    /\ (fpc' = "cleanup" \/ fpc = "cleanup") => disk' = disk

\* C4 as claimed: people.json changes only by the rename of a fully written
\* temporary file, and when a failed save ends the destination is unchanged
\* and the temporary file is gone.
C4_AtomicSaveTmpRemoved ==
    [][/\ DestinationIntact
       /\ (fpc = "cleanup" /\ fpc' = "sleep") => tmp' = NoFile]_vars

\* C4 amended: people.json changes only by the rename of a fully written
\* temporary file, and when a failed save ends the destination is unchanged
\* and the temporary file is either gone or, when os.remove failed too, left
\* as the save left it.
C4_AtomicSaveTmpBestEffort ==
    [][/\ DestinationIntact
       /\ (fpc = "cleanup" /\ fpc' = "sleep") => (tmp' = NoFile \/ tmp' = tmp)]_vars

\* C4 witness: a save has failed after an upsert, the flush thread sleeps
\* again, people.json is the file the server started with and holds none of
\* the upserts, and no temporary file is left.
C4_Witness ==
    /\ fpc = "sleep" /\ snapVer > 0 /\ diskVer = 0 /\ tmpVer = 0
    /\ tmp = NoFile /\ disk.kind = "object" /\ ~dirty

\* the file holds a dataset with at least one person
HoldsPersons(f) == f.kind = "object" /\ f.has_persons /\ Len(f.persons) >= 1

\* C5: preload adopts the fallback when people.json is missing, is not
\* JSON, or has no persons or an empty persons list, and the content of the
\* file when it holds at least one person; it writes to neither file.
C5_PreloadAdoptsFileOrFallback ==
    [][(root = "None" /\ root' = "ROOT") =>
          /\ disk' = disk /\ tmp' = tmp
          /\ IF HoldsPersons(disk)
             THEN /\ people' = "loaded"
                  /\ GetPeopleOrFallback' = JsonLoad(disk)
             ELSE /\ people' = "fallback"
                  /\ GetPeopleOrFallback' = FALLBACK]_vars

\* C5 witness: preload has run on a people.json whose persons list is
\* empty and the cache holds the fallback.
C5_Witness ==
    /\ root = "ROOT" /\ memVer = 0
    /\ disk.kind = "object" /\ disk.has_persons /\ disk.persons = <<>>
    /\ people = "fallback"

\* C6: dirty is false right after preload; dirty is true right after any
\* upsert_person call with a non-empty name; dirty is false when a flush
\* cycle that found it true has written, with no upsert since the cycle
\* cleared it.
C6_DirtyAfterPreloadUpsertFlush ==
    [][/\ (root = "None" /\ root' = "ROOT") => ~dirty'
       /\ \A w \in Workers : (pc[w] = "locked" /\ pc'[w] = "idle") => dirty'
       /\ (fpc = "replace" /\ fpc' = "sleep" /\ memVer' = snapVer') => ~dirty']_vars

\* C7: a flush cycle that finds dirty false ends at once and leaves the
\* dataset, the names, dirty and both files as they are.
C7_CleanCycleWritesNothing ==
    [][(fpc = "locked" /\ ~dirty) =>
          /\ fpc' = "sleep"
          /\ UNCHANGED <<people, loaded, fallback, names, dirty, disk, tmp>>]_vars

\* C7 witness: the flush thread holds the lock in a cycle that finds dirty
\* false, after an earlier cycle wrote people.json.
C7_Witness == fpc = "locked" /\ ~dirty /\ diskVer > 0

\* C8: when a flush cycle that found dirty true ends with its write done
\* and no upsert was made since the cycle took its snapshot, reading
\* people.json gives the dataset held in memory: same persons, same order.
C8_FlushedFileEqualsDataset ==
    [][(fpc = "replace" /\ fpc' = "sleep" /\ memVer' = snapVer') =>
          ReadPeopleJson(disk') = Deref(people')]_vars

\* C8 witness: two upserts are flushed, no upsert since, over a people.json
\* that held other persons.
C8_Witness ==
    /\ fpc = "sleep" /\ Idle /\ ~dirty
    /\ memVer = 2 /\ snapVer = 2 /\ diskVer = 2
    /\ people = "loaded"
    /\ Len(disk.persons) > Len(adopted)

\* C9: after preload, no two entries of names are equal when lower-cased.
C9_NamesUniqueCaseInsensitive ==
    root = "ROOT" =>
        \A i, j \in DOMAIN names :
            i # j => Lower(Str(names[i])) # Lower(Str(names[j]))

\* C9 witness: names came from a file, one upsert added a name to them and
\* one upsert of a name already there, written differently, did not.
C9_Witness ==
    /\ root = "ROOT" /\ Idle /\ memVer = 2
    /\ people = "loaded"
    /\ Len(names) = Len(PreloadNames(excel_names, adopted)) + 1
    /\ \E k \in DOMAIN lastUp : \A i \in DOMAIN names :
           Str(names[i]) # UpsertName(lastUp[k])

\* a name that is there and not empty
NonEmptyName(v) == v.t \in {"str", "int"} /\ v.s # <<>>

\* the names of the persons that have a non-empty one
RECURSIVE NamesOf(_)
NamesOf(ps) ==
    IF ps = <<>> THEN <<>>
    ELSE (IF NonEmptyName(ps[1].name) THEN <<ps[1].name>> ELSE <<>>)
         \o NamesOf(Tail(ps))

\* the entries of ns that no earlier entry equals when lower-cased, in order
RECURSIVE FirstOccurrences(_, _)
FirstOccurrences(ns, n) ==
    IF n = 0 THEN <<>>
    ELSE FirstOccurrences(ns, n - 1)
         \o (IF \E j \in 1..(n - 1) : Lower(Str(ns[j])) = Lower(Str(ns[n]))
             THEN <<>> ELSE <<ns[n]>>)

\* C10: right after preload, names is the spreadsheet's names followed by
\* the non-empty names of the adopted persons, each kept at its first
\* occurrence under case-insensitive comparison.
C10_PreloadNamesOrder ==
    (root = "ROOT" /\ memVer = 0) =>
        LET all == excel_names \o NamesOf(adopted)
        IN names = FirstOccurrences(all, Len(all))

\* C10 witness: preload merged a spreadsheet with a file, and a name of the
\* file was dropped because the spreadsheet has it in another case.
C10_Witness ==
    /\ root = "ROOT" /\ memVer = 0 /\ people = "loaded"
    /\ excel_names # <<>>
    /\ Len(names) < Len(excel_names) + Len(NamesOf(adopted))
    /\ Len(names) > Len(excel_names)

\* the name is missing, or a string of nothing but spaces
Blank(p) ==
    \/ p.name.t = "missing"
    \/ p.name.t = "str" /\ \A i \in DOMAIN p.name.s : p.name.s[i] = " "

\* C11: an upsert_person call with a record whose name is missing, empty or
\* whitespace-only returns at once without raising and leaves the dataset,
\* names and dirty unchanged; no such record gets into the critical section.
C11_BlankNameIgnored ==
    [][/\ (ret' = "ignored" /\ ret # "ignored") =>
             UNCHANGED <<people, loaded, fallback, names, dirty, lock>>
       /\ \A w \in Workers : pc'[w] = "locked" => ~Blank(person'[w])]_vars

\* C11 witness: a call with a blank name has returned after an upsert was
\* done: the dataset holds the upsert, dirty is still true.
C11_Witness ==
    /\ ret = "ignored" /\ Idle /\ memVer = 1 /\ dirty
    /\ Len(GetPeopleOrFallback.persons) = Len(adopted) + 1

\* C12: handle_person takes a stored record for found only when its
\* trimmed name equals the name asked for exactly, while the upsert of a
\* record whose name differs from a stored one only in case replaces that
\* stored record and adds none.
C12_LookupExactUpsertCaseless ==
    [][\A w \in Workers :
         /\ (hpc[w] = "scan" /\ hpc'[w] = "cache") =>
               Strip(Str(found'[w][1].name)) = qname[w]
         /\ (hpc[w] = "cache" /\ hpc'[w] = "upserting") =>
               LET ps == GetPeopleOrFallback.persons
                   qs == GetPeopleOrFallback'.persons
                   k == Lower(qname[w])
               IN (\E i \in DOMAIN ps : Key(ps[i]) = k) =>
                     /\ Len(qs) = Len(ps)
                     /\ \E i \in DOMAIN ps :
                           Key(ps[i]) = k /\ qs = [ps EXCEPT ![i] = found[w][1]]]_vars

\* C12 witness: "A" was stored, a request for "a" missed it, and the record
\* the collaborator gave for "a" stands where the record of "A" stood.
C12_Witness ==
    /\ people = "loaded" /\ memVer = 1 /\ Idle
    /\ Str(adopted[1].name) = <<"A">>
    /\ Len(loaded.persons) = Len(adopted)
    /\ loaded.persons[1] = Person(PyStr(<<"a">>), 2)

\* a step in which a handler reads the dataset or the names
ReadStep ==
    \/ \E r \in Workers : hpc[r] = "idle" /\ hpc'[r] = "scan"
    \/ \E r \in Workers : hpc[r] = "scan" /\ (pos'[r] # pos[r] \/ hpc'[r] # "scan")
    \/ response' # response /\ response'.kind \in {"names", "people"}

\* C13: a read never interleaves with an upsert: no handler reads the
\* dataset or the names while a worker is inside upsert_person with its
\* person in the dataset and the name of that person not yet in names, and
\* the persons list a handler is traversing does not change under it.
C13_ReadsNeverInterleave ==
    [][/\ ReadStep =>
             \A w \in Workers : pc[w] = "locked" =>
                \E i \in DOMAIN names :
                    Lower(Str(names[i])) = Lower(UpsertName(person[w]))
       /\ \A r \in Workers : hpc[r] = "scan" =>
             (Deref(source[r]).persons)' = Deref(source[r]).persons]_vars

\* C14: a flush cycle that follows a cycle whose write failed (people.json
\* does not hold the snapshot the flush thread last took) attempts the
\* write, whether or not an upsert was made in between.
C14_FailedWriteRetried ==
    [][(fpc = "locked" /\ diskVer < snapVer) => fpc' = "write"]_vars

\* what handle_person answers when it has no events to show
PlaceholderResponse(w) ==
    [kind |-> "person", status |-> 200,
     body |-> [name |-> PyStr(qname[w]), style |-> "None", events |-> 0,
               lat |-> PyStr(<<>>)]]

\* C15: handle_person calls upsert_person only with a record that has at
\* least one event; for a record with zero events it leaves the dataset,
\* names and dirty unchanged and answers with the placeholder.
C15_ZeroEventsNeverCached ==
    [][\A w \in Workers :
         /\ (hpc[w] = "cache" /\ hpc'[w] # "cache") =>
               IF found[w] # <<>> /\ found[w][1].events = 0
               THEN /\ hpc'[w] = "respond"
                    /\ UNCHANGED <<people, loaded, fallback, names, dirty, pc>>
               ELSE pc'[w] = "locked" => person'[w].events >= 1
         /\ (hpc[w] = "respond" /\ hpc'[w] = "idle"
             /\ found[w] # <<>> /\ found[w][1].events = 0) =>
               response' = PlaceholderResponse(w)]_vars

\* C15 witness: a request hit a stored record without events and is about
\* to answer; nothing was upserted.
C15_Witness ==
    \E w \in Workers :
        /\ hpc[w] = "respond" /\ found[w] # <<>> /\ found[w][1].events = 0
        /\ memVer = 0 /\ ~dirty
        /\ \E i \in DOMAIN loaded.persons : loaded.persons[i] = found[w][1]

\* C16: when the collaborator raises for a name that missed the cache, the
\* handler goes on (no exception leaves it), calls no upsert and answers
\* 200 with the placeholder.
C16_CollaboratorFailureAbsorbed ==
    [][\A w \in Workers :
         /\ (hpc[w] = "resolve" /\ hpc'[w] # "resolve") =>
               hpc'[w] = "cache" /\ response' = response
         /\ (hpc[w] = "cache" /\ found[w] = <<>> /\ hpc'[w] # "cache") =>
               /\ hpc'[w] = "respond"
               /\ UNCHANGED <<people, loaded, fallback, names, dirty, pc, ret>>
         /\ (hpc[w] = "respond" /\ found[w] = <<>> /\ hpc'[w] = "idle") =>
               response' = PlaceholderResponse(w)]_vars

\* C16 witness: the collaborator raised for a name that no stored record
\* has (found is None after the call), the handler is past the upsert it
\* did not make and about to answer.
C16_Witness ==
    \E w \in Workers :
        /\ hpc[w] = "respond" /\ found[w] = <<>>
        /\ pos[w] = 0
        /\ memVer = 0 /\ ~dirty /\ ret = "none"

C18_ReadersNeverSeeNull ==
    /\ GetPeopleOrFallback.kind = "dict"
    /\ GetPeopleOrFallback =
          IF people # "None" /\ Deref(people).persons # <<>>
          THEN Deref(people) ELSE fallback
    /\ GetNames \in Seq({names[i] : i \in DOMAIN names})

\* C18 witness: before preload nothing is held, and the readers get the
\* fallback and the empty sequence.
C18_Witness ==
    /\ root = "None" /\ people = "None"
    /\ GetPeopleOrFallback = FALLBACK
    /\ GetNames = <<>>

\* C19: one upsert_person call with a non-empty name replaces the first
\* record of the same trimmed lower-cased name where it stands, or appends
\* its record when there is none, and leaves the other records and their
\* order alone; it appends the trimmed name to names unless names has an
\* entry equal to it when lower-cased; it sets dirty.
C19_UpsertReplacesOrAppends ==
    [][\A w \in Workers :
         /\ (pc[w] = "idle" /\ pc'[w] = "locked") =>
               LET ps == GetPeopleOrFallback.persons
                   qs == GetPeopleOrFallback'.persons
                   p == person'[w]
                   hits == {i \in DOMAIN ps : Key(ps[i]) = Key(p)}
               IN IF hits = {}
                  THEN qs = Append(ps, p)
                  ELSE \E i \in hits :
                          /\ \A j \in hits : i <= j
                          /\ qs = [ps EXCEPT ![i] = p]
         /\ (pc[w] = "locked" /\ pc'[w] = "idle") =>
               LET n == UpsertName(person[w])
               IN /\ names' =
                        IF \E i \in DOMAIN names : Lower(Str(names[i])) = Lower(n)
                        THEN names ELSE Append(names, PyStr(n))
                  /\ dirty']_vars

\* C20: the flush thread tests dirty, clears it and takes its snapshot in
\* one step under the lock, and it is never inside the save while it holds
\* the lock.
C20_WriteOutsideLock ==
    [][/\ ((dirty /\ ~dirty') \/ snap' # snap) =>
             /\ lock = "flush" /\ fpc = "locked"
             /\ dirty /\ ~dirty' /\ snap' = SnapshotData
       /\ fpc' \in {"write", "replace", "cleanup"} => lock' # "flush"]_vars

\* C20 witness: the flush thread is writing the temporary file while a
\* worker is inside upsert_person with the lock.
C20_Witness ==
    /\ fpc = "write"
    /\ \E w \in Workers : lock = w /\ pc[w] = "locked"

\* C21: the temporary file a cycle writes holds the dataset as it was when
\* the cycle took its snapshot under the lock: an upsert made after the lock
\* was released and before the dump is left to the next cycle.
C21_WritesSnapshotTimeDataset ==
    [][(fpc = "write" /\ fpc' = "replace") =>
          /\ tmp' = JsonDump(snapDoc)
          /\ tmpVer' = snapVer]_vars

\* the names and dirty after upsert_person was called with p and then with
\* q, one call after the other, on the state preload left
SerialNames(p, q) ==
    LET ns == PreloadNames(excel_names, adopted)
    IN IF LowNamesRaises(ns) THEN ns
       ELSE NamesPut(NamesPut(ns, UpsertName(p)), UpsertName(q))

SerialDirty == ~LowNamesRaises(PreloadNames(excel_names, adopted))

\* the calls a state after two upserts can come from: q took the lock last
SerialOrders ==
    { pq \in UpsertArgs \X UpsertArgs :
        /\ UpsertName(pq[1]) # <<>> /\ UpsertName(pq[2]) # <<>>
        /\ Key(pq[1]) \in DOMAIN lastUp /\ Key(pq[2]) \in DOMAIN lastUp
        /\ lastUp[Key(pq[2])] = pq[2]
        /\ Key(pq[1]) # Key(pq[2]) => lastUp[Key(pq[1])] = pq[1] }

\* C22: two upsert_person calls of two threads act one after the other: once
\* both are done the dataset, names and dirty are those of the two calls made
\* serially in the order they took the lock (dirty as long as no flush cycle
\* has cleared it): with names that differ under the comparison of upsert
\* both records are present, with equal names exactly one record of that name
\* remains, the argument of the call that took the lock last (for an adopted
\* dataset with distinct names).
C22_ConcurrentUpsertsSerialize ==
    (root = "ROOT" /\ Idle /\ memVer = 2 /\ KeysDistinct(adopted)) =>
        \E pq \in SerialOrders :
            LET p == pq[1]
                q == pq[2]
                ps == GetPeopleOrFallback.persons
            IN /\ ps = Put(Put(adopted, p), q)
               /\ names = SerialNames(p, q)
               /\ snapVer = 0 => dirty = SerialDirty
               /\ Key(p) # Key(q) =>
                      /\ \E i \in DOMAIN ps : ps[i] = p
                      /\ \E i \in DOMAIN ps : ps[i] = q
               /\ Key(p) = Key(q) =>
                      /\ Cardinality({i \in DOMAIN ps : Key(ps[i]) = Key(q)}) = 1
                      /\ \E i \in DOMAIN ps : ps[i] = q

\* C22 witness: two upserts under the same name are done, the first appended
\* a record and the second replaced it; no flush cycle has run.
C22_Witness ==
    /\ root = "ROOT" /\ Idle /\ KeysDistinct(adopted)
    /\ memVer = 2 /\ snapVer = 0 /\ dirty
    /\ Cardinality(DOMAIN lastUp) = 1
    /\ LET ps == GetPeopleOrFallback.persons
       IN /\ Len(ps) = Len(adopted) + 1
          /\ \A k \in DOMAIN lastUp : ps[Len(ps)] = lastUp[k]

\* the threads inside a with self._lock block
InCritical ==
    {w \in Workers : pc[w] = "locked"} \cup (IF fpc = "locked" THEN {"flush"} ELSE {})

\* C23: once preload is done, every step that changes the dataset, names or
\* dirty is a step of the thread that holds the lock (an upsert that has just
\* taken it or is about to release it, or the flush thread in its with
\* block), and at most one thread is inside a critical section, the one the
\* lock names.
C23_WritesUnderTheLock ==
    [][root = "ROOT" =>
          /\ <<people, loaded, fallback, names, dirty>>'
                 # <<people, loaded, fallback, names, dirty>> =>
                \/ lock = "free" /\ lock' \in Workers /\ pc'[lock'] = "locked"
                \/ lock \in Workers /\ pc[lock] = "locked" /\ lock' = "free"
                \/ lock = "flush" /\ fpc = "locked" /\ lock' = "free"
          /\ Cardinality(InCritical') <= 1
          /\ InCritical' = IF lock' = "free" THEN {} ELSE {lock'}]_vars

\* C23 witness: a worker is inside upsert_person with the lock, after a flush
\* cycle cleared dirty under the lock and while that cycle is still saving.
C23_Witness ==
    /\ \E w \in Workers : pc[w] = "locked" /\ lock = w
    /\ snapVer = 1 /\ memVer = 2 /\ ~dirty
    /\ fpc = "replace"

\* people.json holds the dataset held in memory and nothing is left to write
Synced == ~dirty /\ ReadPeopleJson(disk) = Deref(people)

\* C24: when the flush thread keeps running and every write succeeds, every
\* upsert that returned is eventually in people.json (the file is of a
\* version of the dataset at least as late as the upsert), and once the
\* upserts have stopped the cache stays in a state with dirty false and
\* people.json equal to the dataset in memory.
C24_UpsertsReachDisk ==
    /\ \A n \in 1..MaxUpserts :
           (memVer >= n /\ ret = "returned" /\ Idle) ~> (diskVer >= n)
    /\ <>[](memVer > 0 => Synced)

C26_LogTellsOutcome ==
    [][/\ (fpc = "replace" /\ fpc' = "sleep") => logged'.level = "info"
       /\ (fpc = "cleanup" /\ fpc' = "sleep") => logged'.level = "error"]_vars

\* C27: the flush loop outlives every failure of a cycle: whatever a cycle
\* met (a write that failed, a logger that raised), it comes back to the
\* sleep, and once preload is done a next cycle always starts.
C27_FlushLoopNeverExits ==
    /\ [](fpc # "sleep" => <>(fpc = "sleep"))
    /\ [](root = "ROOT" => <>(fpc = "locked"))

\* C27 witness: a next cycle has started after a cycle whose write failed and
\* whose logger raised.
C27_Witness ==
    /\ fpc = "locked"
    /\ snapVer = 1 /\ diskVer = 0 /\ ~dirty
    /\ logged = NoLog

\* the request of w found its record in the cache: the for loop ended by
\* break, the collaborator was not called
CacheHit(w) == hpc[w] \in {"cache", "upserting", "respond"} /\ pos[w] > 0

\* C28: the collaborator is called only on a cache miss, and a request that
\* found its name in the cache calls no upsert: none of its steps changes
\* the dataset, names or dirty.
C28_CacheHitChangesNothing ==
    [][\A w \in Workers :
          /\ (hpc[w] = "scan" /\ hpc'[w] = "resolve") =>
                \A i \in DOMAIN Deref(source[w]).persons :
                    ~HandlerMatch(Deref(source[w]).persons[i], qname[w])
          /\ (CacheHit(w) /\ hpc'[w] # hpc[w]) =>
                /\ pc'[w] = "idle"
                /\ UNCHANGED <<people, loaded, fallback, names, dirty>>]_vars

\* the keys of the records of a list
Keys(ps) == {Key(ps[i]) : i \in DOMAIN ps}

\* C29: once preload is done the held dataset is never None and never empty,
\* and no step takes a record away: the persons never get fewer, every name
\* they hold (as upsert compares names) stays, and names never gets shorter.
C29_CacheOnlyGrows ==
    [][root = "ROOT" =>
          /\ people' # "None"
          /\ Deref(people)'.kind = "dict"
          /\ Deref(people)'.persons # <<>>
          /\ Len(Deref(people)'.persons) >= Len(Deref(people).persons)
          /\ Keys(Deref(people).persons) \subseteq Keys(Deref(people)'.persons)
          /\ Len(names') >= Len(names)]_vars

\* C29 witness: after an upsert that replaced a record, an upsert that
\* appended one and a flush cycle that wrote them, the dataset holds one
\* record more than preload adopted.
C29_Witness ==
    /\ root = "ROOT" /\ Idle /\ fpc = "sleep"
    /\ memVer = 2 /\ diskVer = 2
    /\ Len(Deref(people).persons) = Len(adopted) + 1
    /\ \E i \in DOMAIN adopted : Deref(people).persons[i] # adopted[i]
    /\ Len(names) > Len(PreloadNames(excel_names, adopted))

\* C30: the fallback object handed to the cache is never changed: its
\* persons stay the records it was built with.
C30_FallbackIsConstant == fallback = FALLBACK

\* a person whose name, trimmed, is not empty
Named(p) == NonEmptyName(p.name) /\ Strip(Str(p.name)) # <<>>

\* names holds an entry that equals the trimmed name of p when both are
\* lower-cased
Indexed(p) ==
    \E i \in DOMAIN names : Lower(Str(names[i])) = Lower(Strip(Str(p.name)))

\* C31: after preload and between upserts, every person of the dataset whose
\* name is not empty has an entry in names that equals its trimmed name under
\* case-insensitive comparison.
C31_NamesCoverDataset ==
    (root = "ROOT" /\ Idle) =>
        \A i \in DOMAIN Deref(people).persons :
            Named(Deref(people).persons[i]) => Indexed(Deref(people).persons[i])

\* C32: when dirty is false, no write is in progress and no write has
\* failed so far, either no upsert was made since preload or people.json
\* holds the dataset held in memory (stated between upserts).
C32_CleanMeansSaved ==
    (root = "ROOT" /\ ~dirty /\ Idle /\ fpc \in {"sleep", "locked"}) =>
        \/ memVer = 0
        \/ ReadPeopleJson(disk) = Deref(people)

\* C33: whatever names preload produced, a call of upsert_person that has
\* changed the persons leaves dirty true when it ends, by return or by
\* exception; stated for the first call after preload, whose persons before
\* the call are the ones preload adopted.
C33_UpsertLeavesDirty ==
    [][\A w \in Workers :
          (/\ pc[w] = "locked" /\ pc'[w] = "idle"
           /\ memVer = 1
           /\ Deref(people).persons # adopted) => dirty']_vars

\* the value the configuration stands for: the environment's when the
\* variable is set, else the file's when it has one, else '30'
Configured ==
    IF environ.set THEN PyStr(environ.text)
    ELSE IF config_json.kind = "object" /\ config_json.has THEN config_json.val
    ELSE PyStr(<<"3", "0">>)

\* its integer value, 30 when it has none
ConfiguredInterval == IF IntRaises(Configured) THEN 30 ELSE IntOf(Configured)

\* C34: once the flush thread has been started, get_flush_interval_sec has
\* returned the integer value of FLUSH_INTERVAL_SEC (from the environment when
\* set, otherwise from config.json, otherwise 30; 30 when the value cannot be
\* converted), the flush loop is running, and every cycle it has started
\* slept that interval.
C34_IntervalIsConfigured ==
    (root = "ROOT" /\ interval_sec # NotStarted) =>
        /\ interval_sec = Returned(ConfiguredInterval)
        /\ fpc # "exited"
        /\ fpc # "sleep" => slept = ConfiguredInterval

\* C35: the single-file server refines the refactored one: from the same
\* file, every step the legacy code makes (a request answered, a cache write,
\* a part of a flush cycle) is a step the refactored server makes from the
\* same state with the same request, collaborator result and write outcome,
\* with the same response, dataset, names, dirty and files after it.
C35_LegacyRefinesRefactored == [][RefactoredNext]_vars

====
